---- MODULE Spec2Model ----
(***************************************************************************)
(* A model of wd-tagger-rs: the label registry (src/tags.rs), the image    *)
(* preprocessor (src/processor.rs), the inference adapter (src/tagger.rs), *)
(* the model metadata (src/config.rs), the tagging pipeline                *)
(* (src/pipeline.rs) and the directory scan of the CLI (src/cli/file.rs).  *)
(*                                                                         *)
(* The library is request/response: the state is the constructed objects   *)
(* (registry, preprocessor, threshold) and the record of the last call     *)
(* in progress on them (its arguments, what the session did, its outcome), *)
(* which the caller takes before the next call.                            *)
(* f32 probabilities are modelled in hundredths (0.35 is 35); NaN is a     *)
(* value of its own that every comparison rejects.                         *)
(***************************************************************************)
EXTENDS Integers, Sequences, FiniteSets

VARIABLES
    csv,           \* the rows of the tag table the registry was loaded from
    tags,          \* LabelTags: total_tags, label2tag, idx2tag
    preprocessor,  \* the ImageProcessor in use: channels, height, width
    model,         \* TaggerModel: the loaded session, known by its num_classes
    threshold,     \* TaggingPipeline.threshold
    env,           \* the process: the tracing subscriber, ort's environment
    walk,          \* a get_image_files call in progress: its tasks and stream
    call           \* the last call: op, arguments, outcome

vars == <<csv, tags, preprocessor, model, threshold, env, walk, call>>

----------------------------------------------------------------------------
(* Bounds of the model *)

MaxTags == 2       \* rows of a tag table
MaxBatch == 2      \* items of a batch
MaxDim == 2        \* width and height of a source image
MaxSide == 2       \* height and width of the model input
MaxSource == 4     \* width and height of a source image that gets padded

----------------------------------------------------------------------------
(* Result<T, TaggerError>, and a panic (an unwrap on None/Err, an index
   out of bounds), which is no Result value at all *)

Ok(v) == [kind |-> "Ok", val |-> v]
Err(variant, message) == [kind |-> "Err", variant |-> variant, message |-> message]
Panic == [kind |-> "Panic"]

IsOk(r) == r.kind = "Ok"
IsErr(r) == r.kind = "Err"

Range(s) == {s[i] : i \in 1..Len(s)}

SeqsUpTo(S, n) == UNION {[1..k -> S] : k \in 0..n}

Max(S) == CHOOSE m \in S : \A x \in S : x <= m

----------------------------------------------------------------------------
(* f32 *)

NaN == 0 - 1

\* a >= b on f32: false when either side is NaN
Ge(a, b) == a # NaN /\ b # NaN /\ a >= b

\* a.partial_cmp(b): None when either side is NaN
PartialCmp(a, b) ==
    IF a = NaN \/ b = NaN THEN "None"
    ELSE IF a < b THEN "Less"
    ELSE IF a > b THEN "Greater"
    ELSE "Equal"

\* the probabilities the checks draw from: below, at and above the default
\* threshold, and NaN
Levels == <<20, 35, 80, NaN>>

----------------------------------------------------------------------------
(* src/tags.rs *)

Names == {"a", "b"}

TagIds == {0, 1}

\* the category column of the table: the codes serde accepts, and one it
\* does not
Codes == {"0", "1", "2", "3", "4", "5", "9"}

\* #[serde(rename = ...)] of TagCategory; "Invalid" stands for the
\* deserialization error of any other code
TagCategory(code) ==
    CASE code = "0" -> "General"
      [] code = "1" -> "Artist"
      [] code = "3" -> "Copyright"
      [] code = "4" -> "Character"
      [] code = "5" -> "Meta"
      [] code = "9" -> "Rating"
      [] OTHER -> "Invalid"

\* one record of the CSV file
Rows(ids, codes) == [tag_id : ids, name : Names, category : codes, count : {0}]

Tables(ids, codes) == SeqsUpTo(Rows(ids, codes), MaxTags)

\* struct Tag, deserialized from a row
Tag(row) ==
    [tag_id |-> row.tag_id, name |-> row.name,
     category |-> TagCategory(row.category), count |-> row.count]

\* collect::<HashMap<K, V>>() of a sequence of (key, value): a later pair
\* replaces an earlier one with the same key
CollectHashMap(pairs) ==
    [k \in {pairs[i][1] : i \in 1..Len(pairs)} |->
        pairs[Max({i \in 1..Len(pairs) : pairs[i][1] = k})][2]]

\* LabelTags::load
load(table) ==
    IF \E i \in 1..Len(table) : TagCategory(table[i].category) = "Invalid"
    THEN Err("Tag", "deserialize")
    ELSE LET tag_list == [i \in 1..Len(table) |-> Tag(table[i])]
         IN Ok([total_tags |-> Len(tag_list),
                label2tag |-> CollectHashMap(
                    [i \in 1..Len(tag_list) |-> <<tag_list[i].name, tag_list[i]>>]),
                idx2tag |-> CollectHashMap(
                    [i \in 1..Len(tag_list) |-> <<i - 1, tag_list[i]>>])])

\* map_pair with the length check left out for short vectors
map_pair_truncating(idx2tags, probs) ==
    IF Cardinality(DOMAIN idx2tags) < Len(probs)
    THEN Err("Tag", "Tags and probabilities length mismatch")
    ELSE Ok(CollectHashMap(
            [i \in 1..Len(probs) |-> <<idx2tags[i - 1].name, probs[i]>>]))

\* map_pair, the inner function of create_probality_pairs
map_pair(idx2tags, probs) ==
    IF Cardinality(DOMAIN idx2tags) # Len(probs)
    THEN Err("Tag", "Tags and probabilities length mismatch")
    ELSE IF \E i \in 1..Len(probs) : (i - 1) \notin DOMAIN idx2tags
    THEN Panic
    ELSE Ok(CollectHashMap(
            [i \in 1..Len(probs) |-> <<idx2tags[i - 1].name, probs[i]>>]))

\* collect::<Result<Vec<T>, E>>(): the first Err (or panic) met in order,
\* else the vector of the values
CollectResult(results) ==
    IF \E i \in 1..Len(results) : ~IsOk(results[i])
    THEN results[CHOOSE i \in 1..Len(results) :
                    /\ ~IsOk(results[i])
                    /\ \A j \in 1..(i - 1) : IsOk(results[j])]
    ELSE Ok([i \in 1..Len(results) |-> results[i].val])

\* create_probality_pairs leaving out the vectors map_pair rejects
create_probality_pairs_lenient(self, tensor) ==
    Ok(SelectSeq([i \in 1..Len(tensor) |-> map_pair(self.idx2tag, tensor[i])], IsOk))

\* LabelTags::create_probality_pairs
create_probality_pairs(self, tensor) ==
    CollectResult([i \in 1..Len(tensor) |-> map_pair(self.idx2tag, tensor[i])])

----------------------------------------------------------------------------
(* src/processor.rs *)

\* RGBA pixel values of the source images
Colors == <<<<255, 128, 0, 255>>, <<10, 20, 30, 0>>, <<7, 77, 177, 128>>>>

\* a source image (DynamicImage, seen as RGBA8): width x height pixels
Picture(w, h, seed) ==
    [width |-> w, height |-> h,
     pixels |-> [xy \in (0..(w - 1)) \X (0..(h - 1)) |->
                    Colors[((xy[1] + 2 * xy[2] + seed) % Len(Colors)) + 1]]]

Images == {Picture(w, h, seed) : w \in 1..MaxDim, h \in 1..MaxDim, seed \in {0, 1}}

Batches == SeqsUpTo(Images, MaxBatch)

\* Rgba<u8> to Rgb<u8>: the alpha channel is dropped
to_rgb(pixel) == <<pixel[1], pixel[2], pixel[3]>>

\* the canvas of process, converted by to_rgb8
image_rgb(image) ==
    LET image_rgba == image.pixels
        canvas == [xy \in (0..(image.width - 1)) \X (0..(image.height - 1)) |->
                      IF xy \in DOMAIN image_rgba
                      THEN image_rgba[xy]
                      ELSE <<255, 255, 255, 255>>]
    IN [width |-> image.width, height |-> image.height,
        pixels |-> [xy \in DOMAIN canvas |-> to_rgb(canvas[xy])]]

max_dim(image) == IF image.width >= image.height THEN image.width ELSE image.height
\* pad_left without the halving: the image put at the right edge
pad_left_unhalved(image) == max_dim(image) - image.width

pad_left(image) == (max_dim(image) - image.width) \div 2
\* pad_top computed from the width, as pad_left is
pad_top_of_width(image) == (max_dim(image) - image.width) \div 2
pad_top(image) == (max_dim(image) - image.height) \div 2

\* the writes of the padding loop: put_pixel panics outside the canvas
PutInBounds(image) ==
    \A x \in 0..(image.width - 1), y \in 0..(image.height - 1) :
        /\ x + pad_left(image) < max_dim(image)
        /\ y + pad_top(image) < max_dim(image)

\* RgbImage::new(max_dim, max_dim) (all zero) with the image put on it
padded_image(image) ==
    LET rgb == image_rgb(image)
        m == max_dim(image)
    IN [width |-> m, height |-> m,
        pixels |-> [xy \in (0..(m - 1)) \X (0..(m - 1)) |->
                      LET sx == xy[1] - pad_left(image)
                          sy == xy[2] - pad_top(image)
                      IN IF <<sx, sy>> \in DOMAIN rgb.pixels
                         THEN rgb.pixels[<<sx, sy>>]
                         ELSE <<0, 0, 0>>]]

\* (a / b).round() of non-negative a, b > 0
RoundDiv(a, b) == (2 * a + b) \div (2 * b)

AtLeastOne(n) == IF n < 1 THEN 1 ELSE n

\* image's resize_dimensions(width, height, nwidth, nheight, fill = false):
\* the largest size of the source's aspect ratio within nwidth x nheight
resize_dimensions(width, height, nwidth, nheight) ==
    IF nwidth * height <= nheight * width
    THEN <<AtLeastOne(nwidth), AtLeastOne(RoundDiv(height * nwidth, width))>>
    ELSE <<AtLeastOne(RoundDiv(width * nheight, height)), AtLeastOne(nheight)>>

\* DynamicImage::resize(nwidth, nheight, filter): keeps the aspect ratio.
\* The CatmullRom kernel belongs to the image crate: the output is a function
\* of the source alone, and here each output pixel takes the source pixel
\* its centre falls on.
resize(img, nwidth, nheight) ==
    IF <<nwidth, nheight>> = <<img.width, img.height>> THEN img
    ELSE LET d == resize_dimensions(img.width, img.height, nwidth, nheight)
         IN [width |-> d[1], height |-> d[2],
             pixels |-> [xy \in (0..(d[1] - 1)) \X (0..(d[2] - 1)) |->
                            img.pixels[<<((2 * xy[1] + 1) * img.width) \div (2 * d[1]),
                                         ((2 * xy[2] + 1) * img.height) \div (2 * d[2])>>]]]

\* resized_rgb of process
resized_rgb(self, image) == resize(padded_image(image), self.width, self.height)

\* Array<f32, Ix4>: a shape and the elements, indexed from 0
Indices(shape) ==
    (0..(shape[1] - 1)) \X (0..(shape[2] - 1)) \X (0..(shape[3] - 1)) \X (0..(shape[4] - 1))

\* the tensor of process with the channels left in RGB order
bgr_tensor_unswapped(self, resized) ==
    LET shape == <<1, self.height, self.width, self.channels>>
    IN [shape |-> shape,
        data |-> [i \in Indices(shape) |->
                    IF <<i[3], i[2]>> \in DOMAIN resized.pixels /\ i[4] <= 2
                    THEN resized.pixels[<<i[3], i[2]>>][i[4] + 1]
                    ELSE 0]]

\* the tensor of process sized after the resized image
bgr_tensor_of_image_size(self, resized) ==
    LET shape == <<1, resized.height, resized.width, self.channels>>
    IN [shape |-> shape,
        data |-> [i \in Indices(shape) |->
                    IF <<i[3], i[2]>> \in DOMAIN resized.pixels /\ i[4] <= 2
                    THEN resized.pixels[<<i[3], i[2]>>][3 - i[4]]
                    ELSE 0]]

\* Array::zeros((height, width, channels)), filled from the resized image
\* with channel 0 = b, 1 = g, 2 = r, then insert_axis(Axis(0))
bgr_tensor(self, resized) ==
    LET shape == <<1, self.height, self.width, self.channels>>
    IN [shape |-> shape,
        data |-> [i \in Indices(shape) |->
                    IF <<i[3], i[2]>> \in DOMAIN resized.pixels /\ i[4] <= 2
                    THEN resized.pixels[<<i[3], i[2]>>][3 - i[4]]
                    ELSE 0]]

\* the indexed writes of the conversion loop: out of the tensor, they panic
WritesInBounds(self, resized) ==
    /\ resized.width <= self.width
    /\ resized.height <= self.height
    /\ self.channels >= 3

\* <ImagePreprocessor as ImageProcessor>::process
ImagePreprocessor_process(self, image) ==
    IF ~PutInBounds(image) THEN Panic
    ELSE LET resized == resized_rgb(self, image)
         IN IF ~WritesInBounds(self, resized) THEN Panic
            ELSE Ok(bgr_tensor(self, resized))

\* the ImageProcessor implementors of the checks: the crate's
\* ImagePreprocessor, whose process never returns Err, and an implementor
\* of the public trait whose process returns Err for an image wider or
\* higher than max_side and is ImagePreprocessor's otherwise
ImagePreprocessors ==
    [kind : {"ImagePreprocessor"}, channels : {3, 4},
     height : 1..MaxSide, width : 1..MaxSide, max_side : {MaxDim}]

OtherProcessors ==
    [kind : {"Other"}, channels : {3},
     height : 1..MaxSide, width : 1..MaxSide, max_side : 0..(MaxDim - 1)]

\* ImageProcessor::process, the trait's required method
process(self, image) ==
    IF self.kind = "Other" /\ max_dim(image) > self.max_side
    THEN [kind |-> "Err", variant |-> "Processor",
          message |-> "unsupported image", image |-> image]
    ELSE ImagePreprocessor_process(self, image)

\* the loop of process_batch going on after a failed image
RECURSIVE process_loop_skipping(_, _, _, _)
process_loop_skipping(self, images, i, image_tensors) ==
    IF i > Len(images)
    THEN [result |-> Ok(image_tensors), processed |-> Len(images)]
    ELSE LET r == process(self, images[i])
         IN process_loop_skipping(self, images, i + 1,
                IF IsOk(r) THEN Append(image_tensors, r.val) ELSE image_tensors)

\* the loop of process_batch putting each tensor before the earlier ones
RECURSIVE process_loop_prepending(_, _, _, _)
process_loop_prepending(self, images, i, image_tensors) ==
    IF i > Len(images)
    THEN [result |-> Ok(image_tensors), processed |-> Len(images)]
    ELSE LET r == process(self, images[i])
         IN IF IsOk(r)
            THEN process_loop_prepending(self, images, i + 1,
                                         <<r.val>> \o image_tensors)
            ELSE [result |-> r, processed |-> i]

\* the loop of process_batch: image_tensors.push(self.process(&image)?);
\* processed counts the images process was called on
RECURSIVE process_loop(_, _, _, _)
process_loop(self, images, i, image_tensors) ==
    IF i > Len(images)
    THEN [result |-> Ok(image_tensors), processed |-> Len(images)]
    ELSE LET r == process(self, images[i])
         IN IF IsOk(r)
            THEN process_loop(self, images, i + 1, Append(image_tensors, r.val))
            ELSE [result |-> r, processed |-> i]

RECURSIVE BatchOffset(_, _)
BatchOffset(tensors, k) ==
    IF k <= 1 THEN 0 ELSE BatchOffset(tensors, k - 1) + tensors[k - 1].shape[1]

\* a concatenate that answers no array at all with a tensor whose batch
\* axis is 0
concatenate_accepting_none(tensors) ==
    IF Len(tensors) = 0
    THEN Ok([shape |-> <<0, 0, 0, 0>>,
             data |-> [i \in Indices(<<0, 0, 0, 0>>) |-> 0]])
    ELSE IF \E k \in 1..Len(tensors), d \in 2..4 : tensors[k].shape[d] # tensors[1].shape[d]
    THEN Err("Shape", "IncompatibleShape")
    ELSE LET s1 == tensors[1].shape
             shape == <<BatchOffset(tensors, Len(tensors) + 1), s1[2], s1[3], s1[4]>>
         IN Ok([shape |-> shape,
                data |-> [i \in Indices(shape) |->
                    LET k == CHOOSE k \in 1..Len(tensors) :
                                /\ BatchOffset(tensors, k) <= i[1]
                                /\ i[1] < BatchOffset(tensors, k + 1)
                    IN tensors[k].data[<<i[1] - BatchOffset(tensors, k), i[2], i[3], i[4]>>]]])

\* ndarray::concatenate(Axis(0), views): an error for no array at all or
\* for arrays that differ on another axis
concatenate(tensors) ==
    IF Len(tensors) = 0 THEN Err("Shape", "Unsupported")
    ELSE IF \E k \in 1..Len(tensors), d \in 2..4 : tensors[k].shape[d] # tensors[1].shape[d]
    THEN Err("Shape", "IncompatibleShape")
    ELSE LET s1 == tensors[1].shape
             shape == <<BatchOffset(tensors, Len(tensors) + 1), s1[2], s1[3], s1[4]>>
         IN Ok([shape |-> shape,
                data |-> [i \in Indices(shape) |->
                    LET k == CHOOSE k \in 1..Len(tensors) :
                                /\ BatchOffset(tensors, k) <= i[1]
                                /\ i[1] < BatchOffset(tensors, k + 1)
                    IN tensors[k].data[<<i[1] - BatchOffset(tensors, k), i[2], i[3], i[4]>>]]])

\* ImageProcessor::process_batch, the trait's default method, with the
\* number of process calls it made
process_batch_run(self, images) ==
    LET l == process_loop(self, images, 1, <<>>)
    IN IF ~IsOk(l.result) THEN l
       ELSE LET c == concatenate(l.result.val)
            IN [result |-> IF IsOk(c) THEN c
                           ELSE Err("Processor", "Failed to process batch"),
                processed |-> l.processed]

process_batch(self, images) == process_batch_run(self, images).result

\* the slice of a tensor at index k of the batch axis, as a tensor of batch 1
Slice(tensor, k) ==
    LET shape == <<1, tensor.shape[2], tensor.shape[3], tensor.shape[4]>>
    IN [shape |-> shape,
        data |-> [i \in Indices(shape) |-> tensor.data[<<k, i[2], i[3], i[4]>>]]]

----------------------------------------------------------------------------
(* src/config.rs *)

MaxInputSize == 4  \* elements of an input_size array

\* an element of a JSON array: a number, a number above u32::MAX, or a
\* string
JsonItems == [t : {"num"}, v : {0 - 1, 2}] \cup [t : {"big", "str"}, v : {0}]

\* the value of pretrained_cfg.input_size in the document: absent, a string,
\* or an array
JsonInputSizes ==
    [t : {"missing", "str"}, items : {<<>>}]
    \cup [t : {"array"}, items : SeqsUpTo(JsonItems, MaxInputSize)]

\* config.json: whether the file can be read, whether the text is JSON with
\* every other required field of ModelConfig, and its input_size
Documents == [readable : BOOLEAN, fields_ok : BOOLEAN, input_size : JsonInputSizes]

\* serde's u32: a JSON number in 0..=u32::MAX
IsU32(item) == item.t = "num" /\ item.v >= 0

\* ModelConfig::load: input_size is a Vec<u32>, of any length
ModelConfig_load(doc) ==
    IF ~doc.readable THEN Err("Io", "read")
    ELSE IF \/ ~doc.fields_ok
            \/ doc.input_size.t # "array"
            \/ \E i \in 1..Len(doc.input_size.items) : ~IsU32(doc.input_size.items[i])
    THEN Err("Io", "parse")
    ELSE Ok([architecture |-> "arch", num_classes |-> 1, num_features |-> 1,
             pretrained_cfg |->
                [input_size |-> [i \in 1..Len(doc.input_size.items) |->
                                    doc.input_size.items[i].v],
                 fixed_input_size |-> TRUE, num_classes |-> 1]])

\* a ModelConfig, its fields being public: any Vec<u32> as input_size
ModelConfigs ==
    [architecture : {"arch"}, num_classes : {1}, num_features : {1},
     pretrained_cfg : [input_size : SeqsUpTo({1, 2}, MaxInputSize),
                       fixed_input_size : {TRUE}, num_classes : {1}]]

\* ImagePreprocessor::from_config rejecting only an input_size too short
from_config_at_least(config) ==
    LET input_size == config.pretrained_cfg.input_size
    IN IF Len(input_size) < 3
       THEN Err("Processor", "Invalid input size")
       ELSE Ok([kind |-> "ImagePreprocessor", channels |-> input_size[1],
                height |-> input_size[2], width |-> input_size[3],
                max_side |-> MaxDim])

\* ImagePreprocessor::from_config
from_config(config) ==
    LET input_size == config.pretrained_cfg.input_size
    IN IF Len(input_size) # 3
       THEN Err("Processor", "Invalid input size")
       ELSE Ok([kind |-> "ImagePreprocessor", channels |-> input_size[1],
                height |-> input_size[2], width |-> input_size[3],
                max_side |-> MaxDim])

----------------------------------------------------------------------------
(* src/tagger.rs *)

\* what the ONNX Runtime session does with a tensor of the given batch size:
\* building the inputs or running fails, or it yields the output tensor
\* [batch, num_classes], which holds f32 or not
SessionOutcomes(batch, num_classes) ==
    [step : {"inputs", "run"}, failed : {TRUE}]
    \cup [step : {"output"}, failed : {FALSE}, f32 : {FALSE}]
    \cup [step : {"output"}, failed : {FALSE}, f32 : {TRUE},
          preds : [1..batch -> [1..num_classes -> Range(Levels)]]]

\* TaggerModel::predict
TaggerModel_predict(outcome) ==
    IF outcome.failed THEN Err("Ort", outcome.step)
    ELSE IF ~outcome.f32 THEN Panic
    ELSE Ok(outcome.preds)

----------------------------------------------------------------------------
(* src/pipeline.rs *)

DefaultThreshold == 35

\* iteration orders of a HashMap<String, f32>: any order of its keys
Orders == {o \in [1..Cardinality(Names) -> Names] : Range(o) = Names}

\* the entries of a map whose keys are in kept, in the iteration order
RECURSIVE IterFilter(_, _, _, _)
IterFilter(pairs, order, i, kept) ==
    IF i > Len(order) THEN <<>>
    ELSE LET tag == order[i]
             rest == IterFilter(pairs, order, i + 1, kept)
         IN IF tag \in kept THEN <<<<tag, pairs[tag]>>>> \o rest ELSE rest

\* filter_tags! with > in place of >=
filter_tags_strict(self, pairs, order, category) ==
    IterFilter(pairs, order, 1,
        {tag \in DOMAIN pairs :
            /\ self.tags.label2tag[tag].category = category
            /\ pairs[tag] # NaN /\ pairs[tag] > self.threshold})

\* filter_tags! without the category test
filter_tags_any_category(self, pairs, order, category) ==
    IterFilter(pairs, order, 1,
        {tag \in DOMAIN pairs : Ge(pairs[tag], self.threshold)})

\* filter_tags!($category): a Prediction (IndexMap) as the sequence of its
\* entries in insertion order
filter_tags(self, pairs, order, category) ==
    IterFilter(pairs, order, 1,
        {tag \in DOMAIN pairs :
            /\ self.tags.label2tag[tag].category = category
            /\ Ge(pairs[tag], self.threshold)})

\* a sort that leaves every new entry where the iteration put it
RECURSIVE InsertSorted_appending(_, _)
InsertSorted_appending(sorted, e) == Append(sorted, e)

\* the position a stable sort by |a, b| b.1.partial_cmp(a.1) gives a new
\* last entry: after every entry that does not compare Greater to it
RECURSIVE InsertSorted(_, _)
InsertSorted(sorted, e) ==
    IF sorted = <<>> THEN <<e>>
    ELSE IF PartialCmp(e[2], sorted[Len(sorted)][2]) = "Greater"
    THEN Append(InsertSorted(SubSeq(sorted, 1, Len(sorted) - 1), e), sorted[Len(sorted)])
    ELSE Append(sorted, e)

RECURSIVE StableSort(_, _)
StableSort(map, n) ==
    IF n = 0 THEN <<>> ELSE InsertSorted(StableSort(map, n - 1), map[n])

\* sort_by_value leaving the entries in insertion order
sort_by_value_unsorted(map) == Ok(map)

\* sort_by_value: partial_cmp(..).unwrap() panics on a NaN it compares
sort_by_value(map) ==
    IF Len(map) >= 2 /\ \E i \in 1..Len(map) : map[i][2] = NaN
    THEN Panic
    ELSE Ok(StableSort(map, Len(map)))

\* TaggingResult::new
TaggingResult_new(rating, character, general) ==
    LET r == sort_by_value(rating)
        c == sort_by_value(character)
        g == sort_by_value(general)
    IN IF ~IsOk(r) \/ ~IsOk(c) \/ ~IsOk(g) THEN Panic
       ELSE Ok([rating |-> r.val, character |-> c.val, general |-> g.val])

\* the filter and sort step shared by predict and predict_batch;
\* label2tag().get(tag).unwrap() panics on a name the registry lacks
categorize(self, pairs, order) ==
    IF \E tag \in DOMAIN pairs : tag \notin DOMAIN self.tags.label2tag THEN Panic
    ELSE
    TaggingResult_new(filter_tags(self, pairs, order, "Rating"),
                      filter_tags(self, pairs, order, "Character"),
                      filter_tags(self, pairs, order, "General"))

\* predict asking the session once more after an inference error
predict_run_retrying(self, image, outcome, orders) ==
    LET tensor == process(self.preprocessor, image)
    IN IF ~IsOk(tensor)
       THEN [result |-> tensor, stages |-> <<"preprocess">>]
       ELSE
       LET probs == TaggerModel_predict(outcome)
       IN IF IsErr(probs)
          THEN [result |-> TaggerModel_predict(outcome),
                stages |-> <<"preprocess", "inference", "inference">>]
          ELSE IF ~IsOk(probs)
          THEN [result |-> probs, stages |-> <<"preprocess", "inference">>]
          ELSE
          LET pairs == create_probality_pairs(self.tags, probs.val)
          IN IF ~IsOk(pairs)
             THEN [result |-> pairs,
                   stages |-> <<"preprocess", "inference", "mapping">>]
             ELSE IF Len(pairs.val) = 0
             THEN [result |-> Panic,
                   stages |-> <<"preprocess", "inference", "mapping">>]
             ELSE [result |-> categorize(self, pairs.val[1], orders[1]),
                   stages |-> <<"preprocess", "inference", "mapping", "filter_sort">>]

\* TaggingPipeline::predict, with the stages it invoked, in order:
\* preprocessor.process, model.predict, tags.create_probality_pairs, and
\* the filter_tags! / TaggingResult::new step. outcome is what the session
\* does, orders the iteration order of each HashMap made
predict_run(self, image, outcome, orders) ==
    LET tensor == process(self.preprocessor, image)
    IN IF ~IsOk(tensor)
       THEN [result |-> tensor, stages |-> <<"preprocess">>]
       ELSE
       LET probs == TaggerModel_predict(outcome)
       IN IF ~IsOk(probs)
          THEN [result |-> probs, stages |-> <<"preprocess", "inference">>]
          ELSE
          LET pairs == create_probality_pairs(self.tags, probs.val)
          IN IF ~IsOk(pairs)
             THEN [result |-> pairs,
                   stages |-> <<"preprocess", "inference", "mapping">>]
             ELSE IF Len(pairs.val) = 0
             THEN [result |-> Panic,
                   stages |-> <<"preprocess", "inference", "mapping">>]
             ELSE [result |-> categorize(self, pairs.val[1], orders[1]),
                   stages |-> <<"preprocess", "inference", "mapping", "filter_sort">>]

\* TaggingPipeline::predict
predict(self, image, outcome, orders) == predict_run(self, image, outcome, orders).result

\* predict_batch whose copy of filter_tags! compares with > where
\* predict's compares with >=
predict_batch_diverging(self, images, outcome, orders) ==
    LET tensor == process_batch(self.preprocessor, images)
    IN IF ~IsOk(tensor) THEN tensor
       ELSE LET probs == TaggerModel_predict(outcome)
            IN IF ~IsOk(probs) THEN probs
               ELSE LET pairs == create_probality_pairs(self.tags, probs.val)
                    IN IF ~IsOk(pairs) THEN pairs
                       ELSE LET results == [k \in 1..Len(pairs.val) |->
                                   TaggingResult_new(
                                      filter_tags_strict(self, pairs.val[k], orders[k], "Rating"),
                                      filter_tags_strict(self, pairs.val[k], orders[k], "Character"),
                                      filter_tags_strict(self, pairs.val[k], orders[k], "General"))]
                            IN IF \E k \in 1..Len(results) : ~IsOk(results[k])
                               THEN Panic
                               ELSE Ok([k \in 1..Len(results) |-> results[k].val])

\* TaggingPipeline::predict_batch
predict_batch(self, images, outcome, orders) ==
    LET tensor == process_batch(self.preprocessor, images)
    IN IF ~IsOk(tensor) THEN tensor
       ELSE LET probs == TaggerModel_predict(outcome)
            IN IF ~IsOk(probs) THEN probs
               ELSE LET pairs == create_probality_pairs(self.tags, probs.val)
                    IN IF ~IsOk(pairs) THEN pairs
                       ELSE LET results == [k \in 1..Len(pairs.val) |->
                                               categorize(self, pairs.val[k], orders[k])]
                            IN IF \E k \in 1..Len(results) : ~IsOk(results[k])
                               THEN Panic
                               ELSE Ok([k \in 1..Len(results) |-> results[k].val])

----------------------------------------------------------------------------
(* Construction: TaggerModel::use_devices (src/tagger.rs) and
   TaggingPipeline::from_pretrained (src/pipeline.rs) *)

\* enum Device, as built with the cuda feature
Devices == {"Cpu", "Cuda"}

DeviceLists == SeqsUpTo(Devices, 1)

\* the execution provider use_devices builds for a device
ExecutionProvider(device) ==
    CASE device = "Cpu" -> "CPUExecutionProvider"
      [] device = "Cuda" -> "CUDAExecutionProvider"

\* the process before anything was set up
NoEnv == [logger |-> FALSE, committed |-> FALSE, providers |-> <<>>,
          loaded |-> FALSE]

\* ort::init().with_execution_providers(..).commit(), a call into the ort
\* crate: it fails, or it makes an environment of the providers the global
\* one, in place of the environment there was
CommitOutcomes == {"failed", "committed"}

\* use_devices returning the logger's error
use_devices_failing_on_logger(e, devices, outcome) ==
    LET try_init == IF e.logger THEN "Err" ELSE "Ok"
        privders == [i \in 1..Len(devices) |-> ExecutionProvider(devices[i])]
    IN IF try_init = "Err"
       THEN [result |-> Err("Cuda", "logger"), warning |-> FALSE,
             commits |-> <<>>, env |-> e]
       ELSE [result |-> IF outcome = "failed" THEN Err("Cuda", "commit") ELSE Ok(<<>>),
             warning |-> FALSE,
             commits |-> <<privders>>,
             env |-> [e EXCEPT !.logger = TRUE,
                        !.committed = @ \/ outcome = "committed",
                        !.providers = IF outcome = "committed" THEN privders ELSE @]]

\* TaggerModel::use_devices: the result, whether the warning was printed,
\* the provider lists handed to commit, and the process afterwards
use_devices(e, devices, outcome) ==
    LET try_init == IF e.logger THEN "Err" ELSE "Ok"
        privders == [i \in 1..Len(devices) |-> ExecutionProvider(devices[i])]
    IN [result |-> IF outcome = "failed" THEN Err("Cuda", "commit") ELSE Ok(<<>>),
        warning |-> (try_init = "Err"),
        commits |-> <<privders>>,
        env |-> [e EXCEPT !.logger = TRUE,
                   !.committed = @ \/ outcome = "committed",
                   !.providers = IF outcome = "committed" THEN privders ELSE @]]

\* the files of a model repository as the hub serves them: the ONNX model,
\* config.json and the tag table, each found or not
ModelFiles ==
    {[found |-> FALSE, valid |-> FALSE, num_classes |-> 0],
     [found |-> TRUE, valid |-> FALSE, num_classes |-> 0],
     [found |-> TRUE, valid |-> TRUE, num_classes |-> 1]}

ConfigDocuments ==
    [readable : {TRUE}, fields_ok : {TRUE},
     input_size : [t : {"str"}, items : {<<>>}]
                  \cup [t : {"array"},
                        items : SeqsUpTo({[t |-> "num", v |-> 2]}, MaxInputSize)]]

ConfigFiles == [found : BOOLEAN, doc : ConfigDocuments]

CsvFiles == [found : BOOLEAN, table : Tables({0}, {"0", "2"})]

Repositories == [model : ModelFiles, config : ConfigFiles, csv : CsvFiles]

\* TaggerModel::from_pretrained: the session is built in the environment
\* in effect
TaggerModel_from_pretrained(e, file) ==
    IF ~file.found THEN Err("Hf", "model")
    ELSE IF ~file.valid THEN Err("Ort", "commit_from_file")
    ELSE Ok([num_classes |-> file.num_classes, providers |-> e.providers])

\* ModelConfig::from_pretrained
ModelConfig_from_pretrained(file) ==
    IF ~file.found THEN Err("Hf", "config") ELSE ModelConfig_load(file.doc)

\* LabelTags::from_pretrained
LabelTags_from_pretrained(file) ==
    IF ~file.found THEN Err("Hf", "tags") ELSE load(file.table)

\* TaggingPipeline::from_pretrained: the result and the process afterwards
from_pretrained(e, repo, devices, outcome) ==
    LET d == use_devices(e, devices, outcome)
    IN IF ~IsOk(d.result) THEN [result |-> d.result, env |-> d.env]
       ELSE
       LET m == TaggerModel_from_pretrained(d.env, repo.model)
           loaded == [d.env EXCEPT !.loaded = @ \/ IsOk(m)]
       IN IF ~IsOk(m) THEN [result |-> m, env |-> loaded]
          ELSE
          LET config == ModelConfig_from_pretrained(repo.config)
          IN IF ~IsOk(config) THEN [result |-> config, env |-> loaded]
             ELSE
             LET p == from_config(config.val)
             IN IF ~IsOk(p) THEN [result |-> p, env |-> loaded]
                ELSE
                LET t == LabelTags_from_pretrained(repo.csv)
                IN IF ~IsOk(t) THEN [result |-> t, env |-> loaded]
                   ELSE [result |-> Ok([model |-> m.val, preprocessor |-> p.val,
                                        tags |-> t.val,
                                        threshold |-> DefaultThreshold]),
                         env |-> loaded]

----------------------------------------------------------------------------
(* src/cli/file.rs *)

MaxEntries == 3    \* entries of a directory

\* Option<T>
Some(v) == [some |-> TRUE, val |-> v]
None == [some |-> FALSE]

\* a byte that is not valid UTF-8, as a file name on Linux may hold
InvalidByte == "xFF"

\* file names, as sequences of characters
FileNames ==
    {<<"a", ".", "j", "p", "g">>,
     <<"b", ".", "J", "P", "G">>,
     <<"c", ".", "J", "p", "e", "g">>,
     <<"d", ".", "w", "e", "b", "p">>,
     <<"e", ".", "p", "n", "g", ".", "t", "x", "t">>,
     <<"f", ".", "p", "n", "g">>,
     <<".", "p", "n", "g">>,
     <<InvalidByte, ".", "p", "n", "g">>}

\* the listings read_dir can give: distinct names, in any order
Directories ==
    {d \in SeqsUpTo(FileNames, MaxEntries) :
        \A i, j \in 1..Len(d) : d[i] = d[j] => i = j}

IMAGE_EXTENSIONS == {<<"j", "p", "g">>, <<"j", "p", "e", "g">>, <<"p", "n", "g">>, <<"w", "e", "b", "p">>}

\* Path::to_str: None unless the path is valid UTF-8
to_str(path) ==
    IF \E i \in 1..Len(path) : path[i] = InvalidByte THEN None ELSE Some(path)

\* char::to_lowercase on the ASCII letters
LowerChar(c) ==
    CASE c = "A" -> "a" [] c = "B" -> "b" [] c = "E" -> "e" [] c = "G" -> "g"
      [] c = "J" -> "j" [] c = "N" -> "n" [] c = "P" -> "p" [] c = "T" -> "t"
      [] c = "W" -> "w" [] c = "X" -> "x"
      [] OTHER -> c

to_lowercase(str) == [i \in 1..Len(str) |-> LowerChar(str[i])]

\* Path::extension: the part of the file name after its last dot, when the
\* name has a dot that is not its first character
extension(path) ==
    LET dots == {i \in 1..Len(path) : path[i] = "."}
    IN IF dots = {} \/ path = <<".", ".">> THEN None
       ELSE IF Max(dots) = 1 THEN None
       ELSE Some(SubSeq(path, Max(dots) + 1, Len(path)))

\* is_image
is_image(path) ==
    LET ext == extension(path)
    IN IF ext.some THEN Ok(to_lowercase(ext.val) \in IMAGE_EXTENSIONS) ELSE Ok(FALSE)

\* buffer_unordered(16)
BufferSize == 16

\* the task get_image_files spawns for an entry, run to its end: it
\* panics on path.to_str().unwrap() of a name that is not UTF-8
task(path) ==
    IF ~to_str(path).some THEN [kind |-> "Panic"]
    ELSE IF is_image(to_str(path).val).val THEN Ok(Some(path)) ELSE Ok(None)

\* the tasks of a walk that are spawned and not finished
Running(w) == {i \in 1..Len(w.tasks) : w.tasks[i].state = "spawned"}

\* the stream can take another JoinHandle into its buffer
CanPull(w) == w.polled < Len(w.tasks) /\ Cardinality(w.inflight) < BufferSize

----------------------------------------------------------------------------
(* The calls *)

\* no get_image_files call in progress
NoWalk == [pc |-> "idle"]

NoCall == [op |-> "none"]

\* the session was not asked
NotRun == [step |-> "none", failed |-> TRUE]

\* the TaggingPipeline made of the parts
Self == [model |-> model, preprocessor |-> preprocessor, tags |-> tags,
         threshold |-> threshold]

\* a probability vector of a given length
ProbRow(len, seed) == [i \in 1..len |-> Levels[((i + seed) % Len(Levels)) + 1]]

ProbRows == {ProbRow(len, seed) : len \in 0..(MaxTags + 1), seed \in 0..(Len(Levels) - 1)}

PipelineImages == {Picture(MaxDim, 1, 0)}

\* source images up to MaxSource wide and high
SourceImages ==
    {Picture(w, h, seed) : w \in 1..MaxSource, h \in 1..MaxSource, seed \in {0, 1}}

\* tags.create_probality_pairs(tensor), called as the crate's tests do
CreateProbalityPairs ==
    /\ call = NoCall
    /\ \E tensor \in SeqsUpTo(ProbRows, MaxBatch) :
          call' = [op |-> "create_probality_pairs", tensor |-> tensor,
                   result |-> create_probality_pairs(tags, tensor)]
    /\ UNCHANGED <<csv, tags, preprocessor, model, threshold, env, walk>>

\* preprocessor.process(&image)
Process ==
    /\ call = NoCall
    /\ \E image \in Images :
          call' = [op |-> "process", image |-> image,
                   result |-> process(preprocessor, image)]
    /\ UNCHANGED <<csv, tags, preprocessor, model, threshold, env, walk>>

\* preprocessor.process(&image) on a larger source image
ProcessSource ==
    /\ call = NoCall
    /\ \E image \in SourceImages :
          call' = [op |-> "process", image |-> image,
                   result |-> process(preprocessor, image)]
    /\ UNCHANGED <<csv, tags, preprocessor, model, threshold, env, walk>>

\* preprocessor.process_batch(images)
ProcessBatch ==
    /\ call = NoCall
    /\ \E images \in Batches :
          LET run == process_batch_run(preprocessor, images)
          IN call' = [op |-> "process_batch", images |-> images,
                      processed |-> run.processed, result |-> run.result]
    /\ UNCHANGED <<csv, tags, preprocessor, model, threshold, env, walk>>

\* pipeline.predict(image)
Predict ==
    /\ call = NoCall
    /\ \E image \in PipelineImages :
       \E outcome \in (IF IsOk(process(preprocessor, image))
                       THEN SessionOutcomes(1, model.num_classes) ELSE {NotRun}) :
       \E orders \in [1..1 -> Orders] :
          LET run == predict_run(Self, image, outcome, orders)
          IN call' = [op |-> "predict", images |-> <<image>>, session |-> outcome,
                      stages |-> run.stages, result |-> run.result]
    /\ UNCHANGED <<csv, tags, preprocessor, model, threshold, env, walk>>

\* predict_batch giving the threshold up after a call that failed
PredictBatch_resetting ==
    /\ call = NoCall
    /\ \E images \in SeqsUpTo(PipelineImages, MaxBatch) :
       LET tensor == process_batch(preprocessor, images)
       IN \E outcome \in (IF IsOk(tensor)
                          THEN SessionOutcomes(tensor.val.shape[1], model.num_classes)
                          ELSE {NotRun}) :
          \E orders \in [1..Len(images) -> Orders] :
             LET result == predict_batch(Self, images, outcome, orders)
             IN /\ call' = [op |-> "predict_batch", images |-> images,
                            session |-> outcome, result |-> result]
                /\ threshold' = IF IsOk(result) THEN threshold ELSE 0
    /\ UNCHANGED <<csv, tags, preprocessor, model, env, walk>>

\* pipeline.predict_batch(images)
PredictBatch ==
    /\ call = NoCall
    /\ \E images \in SeqsUpTo(PipelineImages, MaxBatch) :
       LET tensor == process_batch(preprocessor, images)
       IN \E outcome \in (IF IsOk(tensor)
                          THEN SessionOutcomes(tensor.val.shape[1], model.num_classes)
                          ELSE {NotRun}) :
          \E orders \in [1..Len(images) -> Orders] :
             call' = [op |-> "predict_batch", images |-> images, session |-> outcome,
                      result |-> predict_batch(Self, images, outcome, orders)]
    /\ UNCHANGED <<csv, tags, preprocessor, model, threshold, env, walk>>

\* ModelConfig::load(config_path) on a document
ModelConfigLoad ==
    /\ call = NoCall
    /\ \E doc \in Documents :
          call' = [op |-> "ModelConfig::load", doc |-> doc,
                   result |-> ModelConfig_load(doc)]
    /\ UNCHANGED <<csv, tags, preprocessor, model, threshold, env, walk>>

\* ImagePreprocessor::from_config(&config)
FromConfig ==
    /\ call = NoCall
    /\ \E config \in ModelConfigs :
          call' = [op |-> "from_config", config |-> config,
                   result |-> from_config(config)]
    /\ UNCHANGED <<csv, tags, preprocessor, model, threshold, env, walk>>

\* TaggerModel::use_devices(devices)
UseDevices ==
    /\ call = NoCall
    /\ \E devices \in DeviceLists : \E outcome \in CommitOutcomes :
          LET d == use_devices(env, devices, outcome)
          IN /\ call' = [op |-> "use_devices", devices |-> devices,
                         logger_was |-> env.logger, commit |-> outcome,
                         warning |-> d.warning, commits |-> d.commits,
                         result |-> d.result]
             /\ env' = d.env
    /\ UNCHANGED <<csv, tags, preprocessor, model, threshold, walk>>

\* TaggingPipeline::from_pretrained(model_name, devices)
FromPretrained ==
    /\ call = NoCall
    /\ \E repo \in Repositories : \E devices \in DeviceLists :
       \E outcome \in CommitOutcomes :
          LET r == from_pretrained(env, repo, devices, outcome)
          IN /\ call' = [op |-> "from_pretrained", repo |-> repo,
                         devices |-> devices, commit |-> outcome,
                         result |-> r.result]
             /\ env' = r.env
    /\ UNCHANGED <<csv, tags, preprocessor, model, threshold, walk>>

\* get_image_files(dir) up to its first await: fs::read_dir(dir)
GetImageFiles ==
    /\ call = NoCall
    /\ walk = NoWalk
    /\ \E is_dir \in BOOLEAN : \E dir \in Directories :
          IF is_dir
          THEN /\ walk' = [pc |-> "reading", dir |-> dir, next |-> 1, tasks |-> <<>>,
                           polled |-> 0, inflight |-> {}, files |-> <<>>]
               /\ call' = call
          ELSE /\ walk' = walk
               /\ call' = [op |-> "get_image_files", dir |-> <<>>,
                           result |-> Err("io", "read_dir")]
    /\ UNCHANGED <<csv, tags, preprocessor, model, threshold, env>>

\* one round of `while let Some(entry) = entries.next_entry().await?`: the
\* entry's task is spawned and its handle pushed, or the listing is at its
\* end and the stream is made of the handles, or next_entry fails
NextEntry ==
    /\ walk.pc = "reading"
    /\ \/ /\ walk.next <= Len(walk.dir)
          /\ walk' = [walk EXCEPT
                        !.next = @ + 1,
                        !.tasks = Append(@, [state |-> "spawned",
                                             path |-> walk.dir[walk.next]])]
          /\ call' = call
       \/ /\ walk.next > Len(walk.dir)
          /\ walk' = [walk EXCEPT !.pc = "streaming"]
          /\ call' = call
       \/ /\ walk' = NoWalk
          /\ call' = [op |-> "get_image_files", dir |-> walk.dir,
                      result |-> Err("io", "next_entry")]
    /\ UNCHANGED <<csv, tags, preprocessor, model, threshold, env>>

\* a spawned task runs on the runtime, whatever get_image_files is doing
TaskRun ==
    /\ walk.pc \in {"reading", "streaming"}
    /\ \E i \in Running(walk) :
          walk' = [walk EXCEPT !.tasks[i] =
                      [state |-> "done", path |-> @.path,
                       output |-> task(@.path)]]
    /\ UNCHANGED <<csv, tags, preprocessor, model, threshold, env, call>>

\* buffer_unordered takes the next handle while fewer than 16 are awaited
StreamPull ==
    /\ walk.pc = "streaming"
    /\ CanPull(walk)
    /\ walk' = [walk EXCEPT !.polled = @ + 1, !.inflight = @ \cup {walk.polled + 1}]
    /\ UNCHANGED <<csv, tags, preprocessor, model, threshold, env, call>>

\* an awaited handle whose task has finished yields; filter_map keeps the
\* path of Ok(Some(path)) and drops Ok(None) and the JoinError of a panic
StreamYield ==
    /\ walk.pc = "streaming"
    /\ ~CanPull(walk)
    /\ \E i \in walk.inflight :
          /\ walk.tasks[i].state = "done"
          /\ LET output == walk.tasks[i].output
             IN walk' = [walk EXCEPT
                           !.inflight = @ \ {i},
                           !.files = IF IsOk(output) /\ output.val.some
                                     THEN Append(@, output.val.val) ELSE @]
    /\ UNCHANGED <<csv, tags, preprocessor, model, threshold, env, call>>

\* the stream is at its end: collect is done and Ok(files) returned
Finish ==
    /\ walk.pc = "streaming"
    /\ walk.polled = Len(walk.tasks)
    /\ walk.inflight = {}
    /\ call' = [op |-> "get_image_files", dir |-> walk.dir,
                result |-> Ok(walk.files)]
    /\ walk' = NoWalk
    /\ UNCHANGED <<csv, tags, preprocessor, model, threshold, env>>

\* the caller takes the outcome; the objects are ready for the next call
Return ==
    /\ call # NoCall
    /\ call' = NoCall
    /\ UNCHANGED <<csv, tags, preprocessor, model, threshold, env, walk>>

----------------------------------------------------------------------------
(* The specifications *)

\* a registry loaded from a table, and calls of its mapper
InitTags ==
    /\ csv \in Tables(TagIds, {"0", "2"})
    /\ IsOk(load(csv))
    /\ tags = load(csv).val
    /\ preprocessor = [kind |-> "ImagePreprocessor", channels |-> 3,
                       height |-> 1, width |-> 1, max_side |-> MaxDim]
    /\ model = [num_classes |-> 0]
    /\ threshold = DefaultThreshold
    /\ env = NoEnv
    /\ walk = NoWalk
    /\ call = NoCall

NextTags == CreateProbalityPairs \/ Return

SpecTags == InitTags /\ [][NextTags]_vars

\* an image processor, and calls of process and process_batch
InitProcessor ==
    /\ csv = <<>>
    /\ tags = load(csv).val
    /\ preprocessor \in ImagePreprocessors \cup OtherProcessors
    /\ model = [num_classes |-> 0]
    /\ threshold = DefaultThreshold
    /\ env = NoEnv
    /\ walk = NoWalk
    /\ call = NoCall

NextProcessor == Process \/ ProcessBatch \/ Return

SpecProcessor == InitProcessor /\ [][NextProcessor]_vars

\* an ImagePreprocessor, and calls of process on images that need padding
InitPadding ==
    /\ csv = <<>>
    /\ tags = load(csv).val
    /\ preprocessor \in [kind : {"ImagePreprocessor"}, channels : {3},
                         height : 1..MaxSide, width : 1..MaxSide,
                         max_side : {MaxSource}]
    /\ model = [num_classes |-> 0]
    /\ threshold = DefaultThreshold
    /\ env = NoEnv
    /\ walk = NoWalk
    /\ call = NoCall

NextPadding == ProcessSource \/ Return

SpecPadding == InitPadding /\ [][NextPadding]_vars

\* a pipeline as TaggingPipeline::from_pretrained leaves it, and calls of
\* predict and predict_batch
Init ==
    /\ csv \in Tables({0}, Codes)
    /\ IsOk(load(csv))
    /\ tags = load(csv).val
    /\ preprocessor = [kind |-> "ImagePreprocessor", channels |-> 3,
                       height |-> MaxSide, width |-> MaxSide, max_side |-> MaxDim]
    /\ model \in [num_classes : 0..MaxTags]
    /\ threshold = DefaultThreshold
    /\ env = NoEnv
    /\ walk = NoWalk
    /\ call = NoCall

Next == Predict \/ PredictBatch \/ Return

Spec == Init /\ [][Next]_vars

\* a process in which pipelines are constructed, one after another
InitConstruct ==
    /\ csv = <<>>
    /\ tags = load(csv).val
    /\ preprocessor = [kind |-> "ImagePreprocessor", channels |-> 3,
                       height |-> 1, width |-> 1, max_side |-> MaxDim]
    /\ model = [num_classes |-> 0]
    /\ threshold = DefaultThreshold
    /\ env \in {[NoEnv EXCEPT !.logger = l] : l \in BOOLEAN}
    /\ walk = NoWalk
    /\ call = NoCall

NextConstruct == ModelConfigLoad \/ FromConfig \/ UseDevices \/ FromPretrained \/ Return

SpecConstruct == InitConstruct /\ [][NextConstruct]_vars

\* the directory scan of the CLI
InitWalk ==
    /\ csv = <<>>
    /\ tags = load(csv).val
    /\ preprocessor = [kind |-> "ImagePreprocessor", channels |-> 3,
                       height |-> 1, width |-> 1, max_side |-> MaxDim]
    /\ model = [num_classes |-> 0]
    /\ threshold = DefaultThreshold
    /\ env = NoEnv
    /\ walk = NoWalk
    /\ call = NoCall

NextWalk ==
    GetImageFiles \/ NextEntry \/ TaskRun \/ StreamPull \/ StreamYield \/ Finish \/ Return

SpecWalk == InitWalk /\ [][NextWalk]_vars

\* the same under the scheduling of the tokio runtime: the function and
\* every spawned task keep being polled until they are done
FairWalk ==
    /\ SpecWalk
    /\ WF_vars(NextEntry) /\ WF_vars(TaskRun) /\ WF_vars(StreamPull)
    /\ WF_vars(StreamYield) /\ WF_vars(Finish)

----------------------------------------------------------------------------
(* The label registry: properties under SpecTags *)

\* C1: for a registry of N rows, create_probality_pairs succeeds exactly
\* when every probability vector has length N; any other length, shorter
\* or longer, makes the call return a Tag error, and it never panics.
C1_LengthChecked ==
    call.op = "create_probality_pairs" =>
        LET N == Len(csv)
            mismatch == \E k \in 1..Len(call.tensor) : Len(call.tensor[k]) # N
        IN /\ call.result.kind # "Panic"
           /\ mismatch => IsErr(call.result) /\ call.result.variant = "Tag"
           /\ ~mismatch => /\ IsOk(call.result)
                           /\ Len(call.result.val) = Len(call.tensor)

\* a vector one longer than a non-empty registry, and one shorter, rejected
C1_Witness ==
    /\ call.op = "create_probality_pairs"
    /\ Len(csv) >= 1
    /\ \E k \in 1..Len(call.tensor) : Len(call.tensor[k]) = Len(csv) + 1
    /\ \E k \in 1..Len(call.tensor) : Len(call.tensor[k]) = Len(csv) - 1
    /\ IsErr(call.result)

\* C2: load gives the tag of row i (counted from 0) the index i, whatever
\* its tag_id, and create_probality_pairs maps the name of the tag at
\* row i to the probability at position i, for every i.
C2_RowOrderPairing ==
    /\ \A i \in 1..Len(csv) :
          (i - 1) \in DOMAIN tags.idx2tag /\ tags.idx2tag[i - 1] = Tag(csv[i])
    /\ (call.op = "create_probality_pairs" /\ IsOk(call.result)) =>
          \A k \in 1..Len(call.tensor) : \A i \in 1..Len(csv) :
             /\ csv[i].name \in DOMAIN call.result.val[k]
             /\ call.result.val[k][csv[i].name] = call.tensor[k][i]

\* with distinct names in the table the pairing of C2 holds: a repeated
\* name is the one case in which it does not
C2_PairingOfDistinctNames ==
    (/\ call.op = "create_probality_pairs"
     /\ IsOk(call.result)
     /\ \A i, j \in 1..Len(csv) : csv[i].name = csv[j].name => i = j) =>
        \A k \in 1..Len(call.tensor) : \A i \in 1..Len(csv) :
           /\ csv[i].name \in DOMAIN call.result.val[k]
           /\ call.result.val[k][csv[i].name] = call.tensor[k][i]

\* C12: after load succeeds on a table of N rows, label2tag, idx2tag and
\* total_tags all have size N.
C12_RegistrySizes ==
    /\ Cardinality(DOMAIN tags.label2tag) = Len(csv)
    /\ Cardinality(DOMAIN tags.idx2tag) = Len(csv)
    /\ tags.total_tags = Len(csv)

\* idx2tag and total_tags do have size N, whatever the names
C12_IndexSizes ==
    /\ Cardinality(DOMAIN tags.idx2tag) = Len(csv)
    /\ tags.total_tags = Len(csv)

----------------------------------------------------------------------------
(* The image processor: properties under SpecProcessor *)

\* the first image of a batch that process rejects, 0 when there is none
FirstFailing(self, images) ==
    IF \E k \in 1..Len(images) : ~IsOk(process(self, images[k]))
    THEN CHOOSE k \in 1..Len(images) :
            /\ ~IsOk(process(self, images[k]))
            /\ \A j \in 1..(k - 1) : IsOk(process(self, images[j]))
    ELSE 0

\* C6: for every image and every configured height and width, equal or
\* not, ImagePreprocessor::process returns a tensor whose batch axis is 1
\* and whose spatial axes are the configured height and width.
C6_TensorShape ==
    (call.op = "process" /\ preprocessor.kind = "ImagePreprocessor") =>
        /\ IsOk(call.result)
        /\ call.result.val.shape[1] = 1
        /\ call.result.val.shape[2] = preprocessor.height
        /\ call.result.val.shape[3] = preprocessor.width
        /\ DOMAIN call.result.val.data = Indices(call.result.val.shape)

\* a non-square image processed for a model input higher than wide
C6_Witness ==
    /\ call.op = "process"
    /\ preprocessor.kind = "ImagePreprocessor"
    /\ preprocessor.height > preprocessor.width
    /\ call.image.width > call.image.height
    /\ IsOk(call.result)

\* C7 as stated: process_batch of K images, each accepted by process,
\* returns a tensor of batch size K whose k-th slice is the tensor process
\* returns for the k-th image alone.
C7_BatchOfSlices ==
    (call.op = "process_batch" /\ FirstFailing(preprocessor, call.images) = 0) =>
        /\ IsOk(call.result)
        /\ call.result.val.shape[1] = Len(call.images)
        /\ \A k \in 1..Len(call.images) :
              Slice(call.result.val, k - 1) = process(preprocessor, call.images[k]).val

\* C7, amended: the same for K >= 1; the empty list yields no tensor.
C7_NonEmptyBatchOfSlices ==
    (/\ call.op = "process_batch"
     /\ FirstFailing(preprocessor, call.images) = 0
     /\ Len(call.images) >= 1) =>
        /\ IsOk(call.result)
        /\ call.result.val.shape[1] = Len(call.images)
        /\ \A k \in 1..Len(call.images) :
              Slice(call.result.val, k - 1) = process(preprocessor, call.images[k]).val

\* a batch of two images with different tensors
C7_Witness ==
    /\ call.op = "process_batch"
    /\ Len(call.images) = 2
    /\ IsOk(call.result)
    /\ process(preprocessor, call.images[1]) # process(preprocessor, call.images[2])

\* C8: when process fails for an image of the list, process_batch returns
\* the error of the first such image and no tensor, and process is not
\* called on the images after it.
C8_FirstErrorAborts ==
    (call.op = "process_batch" /\ FirstFailing(preprocessor, call.images) # 0) =>
        LET f == FirstFailing(preprocessor, call.images)
        IN /\ ~IsOk(call.result)
           /\ call.result = process(preprocessor, call.images[f])
           /\ call.processed = f

\* two different images, both rejected: the first one's error, one call
C8_Witness ==
    /\ call.op = "process_batch"
    /\ Len(call.images) = 2
    /\ call.images[1] # call.images[2]
    /\ ~IsOk(process(preprocessor, call.images[1]))
    /\ ~IsOk(process(preprocessor, call.images[2]))
    /\ call.result = process(preprocessor, call.images[1])
    /\ call.processed = 1

----------------------------------------------------------------------------
(* The padding of process: properties under SpecPadding *)

\* C17: for a source image of width w and height h, the right padding
\* max_dim - w - pad_left differs from pad_left by at most 1 and the bottom
\* padding max_dim - h - pad_top from pad_top by at most 1, and the image
\* lies on the canvas with exactly these paddings around it.
C17_PaddingSymmetric ==
    call.op = "process" =>
        LET image == call.image
            m == max_dim(image)
            left == pad_left(image)
            top == pad_top(image)
            right == m - image.width - left
            bottom == m - image.height - top
            padded == padded_image(image)
        IN /\ left >= 0 /\ right >= 0 /\ top >= 0 /\ bottom >= 0
           /\ right - left \in {0 - 1, 0, 1}
           /\ bottom - top \in {0 - 1, 0, 1}
           /\ \A xy \in DOMAIN padded.pixels :
                 padded.pixels[xy] # <<0, 0, 0>> <=>
                    /\ left <= xy[1] /\ xy[1] < m - right
                    /\ top <= xy[2] /\ xy[2] < m - bottom

\* an image 3 higher than wide: 1 column to the left, 2 to the right
C17_Witness ==
    /\ call.op = "process"
    /\ IsOk(call.result)
    /\ call.image.height = call.image.width + 3
    /\ pad_left(call.image) = 1
    /\ max_dim(call.image) - call.image.width - pad_left(call.image) = 2

\* C24: every put_pixel of the padding loop is inside the max_dim x max_dim
\* canvas (x + pad_left < max_dim and y + pad_top < max_dim for each pixel
\* of the source), so the loop does not panic; and pad_left or pad_top is
\* 0, the image spanning the canvas along its longer side.
C24_WritesInsideCanvas ==
    call.op = "process" =>
        LET image == call.image
            m == max_dim(image)
        IN /\ \A x \in 0..(image.width - 1), y \in 0..(image.height - 1) :
                 /\ 0 <= x + pad_left(image) /\ x + pad_left(image) < m
                 /\ 0 <= y + pad_top(image) /\ y + pad_top(image) < m
           /\ call.result # Panic
           /\ pad_left(image) = 0 \/ pad_top(image) = 0
           /\ (pad_left(image) = 0 /\ image.width = m)
                 \/ (pad_top(image) = 0 /\ image.height = m)

\* an image 2 wider than high: 1 row above it, none to its left, and its
\* last pixel written 1 row above the bottom edge of the canvas
C24_Witness ==
    /\ call.op = "process"
    /\ IsOk(call.result)
    /\ call.image.width = call.image.height + 2
    /\ pad_top(call.image) = 1
    /\ pad_left(call.image) = 0
    /\ (call.image.height - 1) + pad_top(call.image) = max_dim(call.image) - 2

----------------------------------------------------------------------------
(* The tagging pipeline: properties under Spec *)

Surfaced == {"Rating", "Character", "General"}

\* the TaggingResults a finished call returned, in order
Returned ==
    IF call.op = "predict" /\ IsOk(call.result) THEN <<call.result.val>>
    ELSE IF call.op = "predict_batch" /\ IsOk(call.result) THEN call.result.val
    ELSE <<>>

\* the mapping of a TaggingResult for a category
Mapping(tagging, category) ==
    CASE category = "Rating" -> tagging.rating
      [] category = "Character" -> tagging.character
      [] category = "General" -> tagging.general

Keys(mapping) == {mapping[i][1] : i \in 1..Len(mapping)}

\* the name -> probability pairs the registry made of row k of the output
PairsOf(k) == create_probality_pairs(tags, call.session.preds).val[k]

\* C3: in each result of predict and predict_batch, a tag of category
\* Rating, Character or General is in its category's mapping exactly when
\* its probability is >= the threshold (equal is kept, lower is dropped),
\* and it is mapped to its probability.
C3_ThresholdInclusive ==
    \A k \in 1..Len(Returned) :
       \A tag \in DOMAIN PairsOf(k) :
          LET category == tags.label2tag[tag].category
              prob == PairsOf(k)[tag]
          IN category \in Surfaced =>
                LET mapping == Mapping(Returned[k], category)
                IN /\ tag \in Keys(mapping) <=> (prob # NaN /\ prob >= threshold)
                   /\ \A i \in 1..Len(mapping) :
                         mapping[i][1] = tag => mapping[i][2] = prob

\* a result that keeps a tag exactly at the threshold and drops one below
C3_Witness ==
    \E k \in 1..Len(Returned) :
       \E kept, dropped \in DOMAIN PairsOf(k) :
          /\ tags.label2tag[kept].category \in Surfaced
          /\ tags.label2tag[dropped].category \in Surfaced
          /\ PairsOf(k)[kept] = threshold
          /\ PairsOf(k)[dropped] # NaN /\ PairsOf(k)[dropped] < threshold
          /\ kept \in Keys(Mapping(Returned[k], tags.label2tag[kept].category))
          /\ dropped \notin Keys(Mapping(Returned[k], tags.label2tag[dropped].category))

\* C4: in every TaggingResult the three mappings have pairwise disjoint
\* keys, each holds only tags of its own category, and no tag of category
\* Artist, Copyright or Meta is in any of them.
C4_CategoryPartition ==
    \A k \in 1..Len(Returned) :
       /\ \A c, d \in Surfaced :
             c # d => Keys(Mapping(Returned[k], c)) \cap Keys(Mapping(Returned[k], d)) = {}
       /\ \A c \in Surfaced : \A tag \in Keys(Mapping(Returned[k], c)) :
             /\ tag \in DOMAIN tags.label2tag
             /\ tags.label2tag[tag].category = c
       /\ \A tag \in DOMAIN tags.label2tag :
             tags.label2tag[tag].category \in {"Artist", "Copyright", "Meta"} =>
                \A c \in Surfaced : tag \notin Keys(Mapping(Returned[k], c))

\* an Artist, Copyright or Meta tag above the threshold beside a surfaced one
C4_Witness ==
    \E k \in 1..Len(Returned) :
       \E hidden, shown \in DOMAIN PairsOf(k) :
          /\ tags.label2tag[hidden].category \notin Surfaced
          /\ PairsOf(k)[hidden] # NaN /\ PairsOf(k)[hidden] > threshold
          /\ tags.label2tag[shown].category \in Surfaced
          /\ shown \in Keys(Mapping(Returned[k], tags.label2tag[shown].category))

\* C5: in each mapping of a TaggingResult the probabilities, read in
\* output order, never increase.
C5_SortedDescending ==
    \A k \in 1..Len(Returned) : \A c \in Surfaced :
       LET mapping == Mapping(Returned[k], c)
       IN \A i, j \in 1..Len(mapping) :
             i < j => (/\ mapping[i][2] # NaN /\ mapping[j][2] # NaN
                       /\ mapping[i][2] >= mapping[j][2])

\* a mapping of two entries with different probabilities
C5_Witness ==
    \E k \in 1..Len(Returned) : \E c \in Surfaced :
       LET mapping == Mapping(Returned[k], c)
       IN Len(mapping) = 2 /\ mapping[1][2] > mapping[2][2]

\* C9: predict_batch returns an error or one TaggingResult per image; when
\* preprocessing, inference or the probability mapping fails, the call
\* returns that error and no list.
C9_BatchAllOrNothing ==
    call.op = "predict_batch" =>
        LET tensor == process_batch(preprocessor, call.images)
        IN /\ IsOk(call.result) => Len(call.result.val) = Len(call.images)
           /\ ~IsOk(tensor) => call.result = tensor
           /\ (IsOk(tensor) /\ call.session.failed) =>
                 IsErr(call.result) /\ call.result.variant = "Ort"
           /\ (IsOk(tensor) /\ ~call.session.failed /\ call.session.f32) =>
                 IF \E k \in 1..Len(call.session.preds) :
                       Len(call.session.preds[k]) # Len(csv)
                 THEN IsErr(call.result) /\ call.result.variant = "Tag"
                 ELSE IsOk(call.result)
           /\ call.result.kind = "Panic" => ~call.session.failed /\ ~call.session.f32

\* a batch of two whose probability rows do not fit the registry
C9_Witness ==
    /\ call.op = "predict_batch"
    /\ Len(call.images) = 2
    /\ ~call.session.failed /\ call.session.f32
    /\ Len(csv) >= 1
    /\ Len(call.session.preds[1]) # Len(csv)
    /\ IsErr(call.result)

\* C13: no step of predict or predict_batch, successful or failing,
\* changes the threshold, the registry or the preprocessor; the threshold
\* stays the 0.35 of the construction, and every result keeps exactly the
\* tags of its categories whose probability is >= that value.
C13_ConstructionStateKept ==
    /\ [][/\ threshold' = threshold
          /\ tags' = tags
          /\ preprocessor' = preprocessor]_vars
    /\ [](/\ threshold = DefaultThreshold
          /\ tags = load(csv).val
          /\ \A k \in 1..Len(Returned) : \A tag \in DOMAIN PairsOf(k) :
                LET category == tags.label2tag[tag].category
                    prob == PairsOf(k)[tag]
                IN category \in Surfaced =>
                      (tag \in Keys(Mapping(Returned[k], category))
                          <=> (prob # NaN /\ prob >= DefaultThreshold)))

\* a predict result that keeps a tag whose probability is 0.35
C13_Witness ==
    /\ call.op = "predict"
    /\ \E tag \in DOMAIN tags.label2tag :
          /\ tags.label2tag[tag].category \in Surfaced
          /\ Len(Returned) = 1
          /\ PairsOf(1)[tag] = DefaultThreshold
          /\ tag \in Keys(Mapping(Returned[1], tags.label2tag[tag].category))

\* the stages of predict, in the order of the data flow
Stages == <<"preprocess", "inference", "mapping", "filter_sort">>

\* C18: the stages a predict call invoked are an initial part of
\* preprocess, inference, probability mapping, filter/sort, each once;
\* when a stage returns an error no later stage is invoked and the error
\* is the result of the call; a call that returns a result ran all four.
C18_StagesInOrder ==
    call.op = "predict" =>
        LET n == Len(call.stages)
            image == call.images[1]
        IN /\ n \in 1..Len(Stages)
           /\ call.stages = SubSeq(Stages, 1, n)
           /\ IsOk(call.result) <=> n = Len(Stages)
           /\ IsErr(process(preprocessor, image)) =>
                 n = 1 /\ call.result = process(preprocessor, image)
           /\ (n >= 2 /\ call.session.failed) =>
                 n = 2 /\ call.result = Err("Ort", call.session.step)
           /\ (n >= 3 /\ \E k \in 1..Len(call.session.preds) :
                            Len(call.session.preds[k]) # Len(csv)) =>
                 /\ n = 3
                 /\ call.result = Err("Tag", "Tags and probabilities length mismatch")

\* a call whose session failed to run: two stages, the Ort error
C18_Witness ==
    /\ call.op = "predict"
    /\ call.session.failed /\ call.session.step = "run"
    /\ call.stages = <<"preprocess", "inference">>
    /\ call.result = Err("Ort", "run")

\* C15: every failure inside predict or predict_batch reaches the caller
\* as a TaggerError value: no call ends in a panic.
C15_NoPanic ==
    call.op \in {"predict", "predict_batch"} => call.result.kind \in {"Ok", "Err"}

\* the failures the calls do return as values: of the session's inputs and
\* run (Ort) and of the probability mapping (Tag)
C15_ReturnedErrors ==
    (call.op \in {"predict", "predict_batch"} /\ call.result.kind = "Err") =>
        call.result.variant \in {"Ort", "Tag", "Processor"}

\* the session's answer for one image alone, when its answer for the image
\* in a batch was the row probs
AloneOutcome(probs) ==
    [step |-> "output", failed |-> FALSE, f32 |-> TRUE, preds |-> <<probs>>]

\* C21: a successful predict_batch returns one result per image, and its
\* k-th result has in rating, character and general the same set of
\* (tag name, probability) entries as a successful predict of the k-th
\* image alone, the session giving that image the same probabilities.
C21_BatchEqualsSingle ==
    (call.op = "predict_batch" /\ IsOk(call.result)) =>
        /\ Len(call.result.val) = Len(call.images)
        /\ \A k \in 1..Len(call.images) : \A orders \in [1..1 -> Orders] :
              LET alone == predict(Self, call.images[k],
                                   AloneOutcome(call.session.preds[k]), orders)
              IN /\ IsOk(alone)
                 /\ \A c \in Surfaced :
                       Range(Mapping(call.result.val[k], c)) = Range(Mapping(alone.val, c))

\* a batch of two with different results, one of them keeping a tag at the
\* threshold
C21_Witness ==
    /\ call.op = "predict_batch"
    /\ IsOk(call.result)
    /\ Len(call.images) = 2
    /\ call.result.val[1] # call.result.val[2]
    /\ \E k \in 1..2 : \E c \in Surfaced :
          \E i \in 1..Len(Mapping(call.result.val[k], c)) :
             Mapping(call.result.val[k], c)[i][2] = threshold

\* C22: process_batch of no image at all does not return a tensor whose
\* batch axis is 0 but the Processor error "Failed to process batch", and
\* predict_batch of no image returns that error, not an empty list of
\* results, without running the session.
C22_EmptyBatchIsError ==
    /\ process_batch(preprocessor, <<>>) = Err("Processor", "Failed to process batch")
    /\ (call.op = "predict_batch" /\ call.images = <<>>) =>
          /\ call.result = Err("Processor", "Failed to process batch")
          /\ call.session = NotRun

\* predict_batch was called with no image and failed
C22_Witness ==
    /\ call.op = "predict_batch"
    /\ Len(call.images) = 0
    /\ IsErr(call.result)

\* the index of an entry in a mapping that holds it
Position(mapping, entry) == CHOOSE i \in 1..Len(mapping) : mapping[i] = entry

\* the result of a second predict of the same pipeline on the image and the
\* probability vector of the call, its HashMap iterating in the order given
SecondCall(orders) == predict(Self, call.images[1], call.session, orders)

\* C23: a second predict of the same pipeline on the same probability
\* vector returns in each category the same set of (tag name, probability)
\* entries as the first, and two entries of different probabilities are in
\* the same relative order in both results; entries of equal probability
\* alone may change places.
C23_OrderUpToTies ==
    (call.op = "predict" /\ IsOk(call.result)) =>
        \A orders \in [1..1 -> Orders] :
           /\ IsOk(SecondCall(orders))
           /\ \A c \in Surfaced :
                 LET first == Mapping(call.result.val, c)
                     second == Mapping(SecondCall(orders).val, c)
                 IN /\ Range(first) = Range(second)
                    /\ Len(first) = Len(second)
                    /\ \A i, j \in 1..Len(first) :
                          (i < j /\ first[i][2] # first[j][2]) =>
                             Position(second, first[i]) < Position(second, first[j])

\* a category holds two entries of different probabilities, and a second
\* call whose map iterates in another order returns the same result
C23_Witness ==
    /\ call.op = "predict"
    /\ IsOk(call.result)
    /\ \E c \in Surfaced :
          LET first == Mapping(call.result.val, c)
          IN /\ Len(first) = 2
             /\ first[1][2] # first[2][2]
             /\ \E o1, o2 \in [1..1 -> Orders] :
                   /\ o1 # o2
                   /\ SecondCall(o1).val = call.result.val
                   /\ SecondCall(o2).val = call.result.val

\* a category holds two entries of equal probability, and a second call
\* returns them in the other order
C23_TiedEntriesSwap ==
    /\ call.op = "predict"
    /\ IsOk(call.result)
    /\ \E c \in Surfaced : \E orders \in [1..1 -> Orders] :
          LET first == Mapping(call.result.val, c)
              second == Mapping(SecondCall(orders).val, c)
          IN /\ Len(first) = 2
             /\ first[1][2] = first[2][2]
             /\ second = <<first[2], first[1]>>

----------------------------------------------------------------------------
(* Construction: properties under SpecConstruct *)

\* C11: from_config returns the Processor error when input_size does not
\* have exactly 3 elements, and otherwise a preprocessor with channels,
\* height and width the elements 0, 1 and 2; from_pretrained returns a
\* pipeline only for a document whose input_size has 3 elements, with the
\* preprocessor of those, and returns the Processor error for a document
\* of another length that it gets to.
C11_InputSizeOfThree ==
    /\ call.op = "from_config" =>
          LET input_size == call.config.pretrained_cfg.input_size
          IN IF Len(input_size) # 3
             THEN call.result = Err("Processor", "Invalid input size")
             ELSE /\ IsOk(call.result)
                  /\ call.result.val.channels = input_size[1]
                  /\ call.result.val.height = input_size[2]
                  /\ call.result.val.width = input_size[3]
    /\ call.op = "from_pretrained" =>
          LET items == call.repo.config.doc.input_size.items
          IN /\ IsOk(call.result) =>
                   /\ Len(items) = 3
                   /\ call.result.val.preprocessor.channels = items[1].v
                   /\ call.result.val.preprocessor.height = items[2].v
                   /\ call.result.val.preprocessor.width = items[3].v
             /\ (/\ call.commit # "failed"
                 /\ call.repo.model.found /\ call.repo.model.valid
                 /\ call.repo.config.found
                 /\ call.repo.config.doc.input_size.t = "array"
                 /\ Len(items) # 3) =>
                   call.result = Err("Processor", "Invalid input size")

\* a construction that got as far as a document with 4 elements
C11_Witness ==
    /\ call.op = "from_pretrained"
    /\ Len(call.repo.config.doc.input_size.items) = 4
    /\ call.repo.csv.found /\ IsOk(load(call.repo.csv.table))
    /\ call.result = Err("Processor", "Invalid input size")

\* C16: ModelConfig::load returns an error whenever the document's
\* input_size is malformed or does not have exactly 3 elements.
C16_WrongInputSizeFails ==
    call.op = "ModelConfig::load" =>
        LET input_size == call.doc.input_size
        IN (\/ input_size.t # "array"
            \/ \E i \in 1..Len(input_size.items) : ~IsU32(input_size.items[i])
            \/ Len(input_size.items) # 3) => IsErr(call.result)

\* what load does reject: an input_size that is no array of u32
C16_MalformedInputSizeFails ==
    call.op = "ModelConfig::load" =>
        LET input_size == call.doc.input_size
        IN (\/ input_size.t # "array"
            \/ \E i \in 1..Len(input_size.items) : ~IsU32(input_size.items[i]))
              => IsErr(call.result)

\* C14: across the from_pretrained calls of a process the device selection
\* is applied once, before the first model load: once a construction has
\* loaded its model, no later from_pretrained replaces the execution
\* providers in effect.
C14_DevicesSelectedOnce ==
    [][(env.loaded /\ call'.op = "from_pretrained") =>
          (env'.committed /\ env'.providers = env.providers)]_vars

\* C19: a failed logger initialization does not make use_devices fail: the
\* warning is printed exactly then, the providers of the devices are built
\* and handed to commit once in either case, and the result is Ok exactly
\* when the commit succeeded, the Cuda error of the commit otherwise.
C19_LoggerFailureIsWarning ==
    call.op = "use_devices" =>
        /\ call.warning <=> call.logger_was
        /\ call.commits =
              <<[i \in 1..Len(call.devices) |-> ExecutionProvider(call.devices[i])]>>
        /\ IsOk(call.result) <=> call.commit # "failed"
        /\ ~IsOk(call.result) => call.result = Err("Cuda", "commit")
        /\ env.logger

\* a call with a logger already installed: the warning, and Ok of the commit
C19_Witness ==
    /\ call.op = "use_devices"
    /\ call.logger_was
    /\ call.warning
    /\ call.devices = <<"Cuda">>
    /\ IsOk(call.result)
    /\ env.providers = <<"CUDAExecutionProvider">>

----------------------------------------------------------------------------
(* The directory scan: properties under SpecWalk *)

\* a name whose extension is jpg, jpeg, png or webp in any case
HasImageExtension(name) ==
    /\ extension(name).some
    /\ to_lowercase(extension(name).val) \in IMAGE_EXTENSIONS

\* the list holds exactly the entries of the directory with an image
\* extension, each once
ExactlyTheImages(files, dir) ==
    /\ \A i \in 1..Len(dir) :
          HasImageExtension(dir[i]) =>
             Cardinality({j \in 1..Len(files) : files[j] = dir[i]}) = 1
    /\ \A j \in 1..Len(files) :
          \E i \in 1..Len(dir) : dir[i] = files[j] /\ HasImageExtension(dir[i])

\* C20: whatever the interleaving and completion order of the spawned
\* tasks, the list get_image_files returns holds every directory entry
\* whose extension is jpg, jpeg, png or webp (in any case) exactly once,
\* and no other entry.
C20_EveryImageOnce ==
    (call.op = "get_image_files" /\ IsOk(call.result)) =>
        ExactlyTheImages(call.result.val, call.dir)

\* for a directory whose names are all valid UTF-8 the returned list is
\* exactly the images
C20_EveryUtf8ImageOnce ==
    (/\ call.op = "get_image_files"
     /\ IsOk(call.result)
     /\ \A i \in 1..Len(call.dir) : to_str(call.dir[i]).some) =>
        ExactlyTheImages(call.result.val, call.dir)

\* no more than 16 handles are awaited at a time, each taken once
C20_BufferBounded ==
    walk.pc = "streaming" =>
        /\ Cardinality(walk.inflight) <= BufferSize
        /\ walk.inflight \subseteq 1..walk.polled

\* under the runtime's scheduling a scan that started returns
C20_ScanReturns ==
    (walk.pc # "idle") ~> (call.op = "get_image_files")

====
